---- MODULE Spec2Model ----
(***************************************************************************)
(* retro-floppy: the seeded gradient engine (src/src/gradientUtils.ts) and *)
(* the label font scaling of the FloppyDisk component                      *)
(* (src/src/FloppyDisk.tsx).                                               *)
(*                                                                         *)
(* JavaScript strings are TLA+ strings.  A 32-bit integer is a pair        *)
(* <<hi, lo>> of 16-bit halves (the bit pattern), because the arithmetic   *)
(* of the generator wraps at 2^32.  A fraction u / 2^32 drawn from a       *)
(* stream is kept as the 32-bit numerator u; every product of such a       *)
(* fraction with the small integers of the source is exact in IEEE double  *)
(* arithmetic, so it is computed exactly here.  The colour conversion and  *)
(* the widths are computed with exact fractions; the doubles of the source *)
(* differ from them only where a product falls exactly on a rounding tie.  *)
(***************************************************************************)
EXTENDS Integers, Sequences, FiniteSets, TLC

\* frames: the activations of generateLabelGradient
\* disk:   one FloppyDisk: its props, its fontScales state and the widths read
\*         in the last run of calculateScales
\* probe:  the last direct call of one of the functions of gradientUtils.ts:
\*         its arguments and what it returned
VARIABLES frames, disk, probe

vars == <<frames, disk, probe>>

\* the activations of generateLabelGradient that can be in progress together
Frames == {1, 2}

----------------------------------------------------------------------------
(* 32-bit words                                                            *)

H16 == 65536

RECURSIVE Xor16(_, _)
Xor16(a, b) ==
  IF a = 0 THEN b
  ELSE IF b = 0 THEN a
  ELSE 2 * Xor16(a \div 2, b \div 2) + (((a % 2) + (b % 2)) % 2)

RECURSIVE Or16(_, _)
Or16(a, b) ==
  IF a = 0 THEN b
  ELSE IF b = 0 THEN a
  ELSE 2 * Or16(a \div 2, b \div 2) + (IF a % 2 = 1 \/ b % 2 = 1 THEN 1 ELSE 0)

RECURSIVE Pow2(_)
Pow2(n) == IF n = 0 THEN 1 ELSE 2 * Pow2(n - 1)

\* the word of a non-negative integer below 2^31
ToWord(n) == <<n \div H16, n % H16>>

WXor(v, w) == <<Xor16(v[1], w[1]), Xor16(v[2], w[2])>>

WOr(v, w) == <<Or16(v[1], w[1]), Or16(v[2], w[2])>>

\* v + w, wrapped to 32 bits
\* the sum of the upper halves not wrapped at 2^16
WAddNoWrap(v, w) ==
  <<v[1] + w[1] + ((v[2] + w[2]) \div H16), (v[2] + w[2]) % H16>>

WAdd(v, w) ==
  LET lo == v[2] + w[2]
  IN  <<(v[1] + w[1] + (lo \div H16)) % H16, lo % H16>>

\* v >>> n for 0 < n < 16
WShr(v, n) ==
  <<v[1] \div Pow2(n), (v[2] \div Pow2(n)) + ((v[1] % Pow2(n)) * Pow2(16 - n))>>

\* the low 16 bits of the product of two 16-bit numbers
MulLow16(a, b) ==
  (((a % 256) * (b % 256))
     + (((((a \div 256) * (b % 256)) + ((a % 256) * (b \div 256))) % 256) * 256)) % H16

\* Math.imul: the low 32 bits of the product
Imul(v, w) ==
  LET a0 == v[2] % 256
      a1 == v[2] \div 256
      b0 == w[2] % 256
      b1 == w[2] \div 256
      p  == (a0 * b0) + (((a1 * b0) + (a0 * b1)) * 256)
  IN  <<((a1 * b1) + (p \div H16) + MulLow16(v[1], w[2]) + MulLow16(v[2], w[1])) % H16,
        p % H16>>

\* 0 - v, wrapped to 32 bits
WNeg(v) ==
  IF v[2] = 0 THEN <<(H16 - v[1]) % H16, 0>>
  ELSE <<H16 - 1 - v[1], H16 - v[2]>>

----------------------------------------------------------------------------
(* createSeededRandom: Mulberry32                                          *)

\* 0x6d2b79f5
MULBERRY_INCREMENT == <<27947, 31221>>

\* a generator kept at module level and handed to every caller: a stream
\* created while another activation is in progress continues that one's state
createSeededRandomCached(seed) ==
  IF \E c \in Frames : frames[c].pc # "idle"
  THEN frames[CHOOSE c \in Frames : frames[c].pc # "idle"].random
  ELSE seed

\* let state = seed
createSeededRandom(seed) == seed

\* state = (state + 0x6d2b79f5) | 0
NextState(state) == WAdd(state, MULBERRY_INCREMENT)

\* let t = Math.imul(state ^ (state >>> 15), 1 | state)
Mix1(state) == Imul(WXor(state, WShr(state, 15)), WOr(<<0, 1>>, state))

\* t = (t + Math.imul(t ^ (t >>> 7), 61 | t)) ^ t
Mix2(t) == WXor(WAdd(t, Imul(WXor(t, WShr(t, 7)), WOr(<<0, 61>>, t))), t)

\* (t ^ (t >>> 14)) >>> 0
Mix3(t) == WXor(t, WShr(t, 14))

\* the numerator u of the value u / 4294967296 returned for the new state
StreamOutput(state) == Mix3(Mix2(Mix1(state)))

----------------------------------------------------------------------------
(* Strings                                                                 *)

UPPER == "ABCDEFGHIJKLMNOPQRSTUVWXYZ"
LOWER == "abcdefghijklmnopqrstuvwxyz"
DIGITS == "0123456789"

CharAt(str, i) == SubSeq(str, i, i)

\* the position of the one-character string ch in str, 0 when absent
IndexIn(ch, str) ==
  IF \E i \in 1..Len(str) : CharAt(str, i) = ch
  THEN CHOOSE i \in 1..Len(str) : CharAt(str, i) = ch
  ELSE 0

\* str.charCodeAt(i - 1), for the characters the label names are made of
CharCodeAt(str, i) ==
  LET ch == CharAt(str, i)
  IN  IF IndexIn(ch, UPPER) > 0 THEN 64 + IndexIn(ch, UPPER)
      ELSE IF IndexIn(ch, LOWER) > 0 THEN 96 + IndexIn(ch, LOWER)
      ELSE IF IndexIn(ch, DIGITS) > 0 THEN 47 + IndexIn(ch, DIGITS)
      ELSE 32

IsDigit(ch) == IndexIn(ch, DIGITS) > 0

\* \s of the regular expression, for the white space the colours are written with
IsSpace(ch) == ch = " "

StartsWithAt(str, i, prefix) ==
  /\ i + Len(prefix) - 1 <= Len(str)
  /\ SubSeq(str, i, i + Len(prefix) - 1) = prefix

StartsWith(str, prefix) == StartsWithAt(str, 1, prefix)

\* the first position at or after i where needle occurs in str, 0 when none
IndexOfFrom(str, needle, i) ==
  IF \E j \in i..(Len(str) + 1) : StartsWithAt(str, j, needle)
  THEN CHOOSE j \in i..(Len(str) + 1) :
         /\ StartsWithAt(str, j, needle)
         /\ \A k \in i..(j - 1) : ~StartsWithAt(str, k, needle)
  ELSE 0

\* the end (exclusive) of the longest run of digits starting at i
RECURSIVE DigitsEnd(_, _)
DigitsEnd(str, i) ==
  IF i <= Len(str) /\ IsDigit(CharAt(str, i)) THEN DigitsEnd(str, i + 1) ELSE i

RECURSIVE SpacesEnd(_, _)
SpacesEnd(str, i) ==
  IF i <= Len(str) /\ IsSpace(CharAt(str, i)) THEN SpacesEnd(str, i + 1) ELSE i

\* parseInt of a string of digits
RECURSIVE ParseInt(_)
ParseInt(str) ==
  IF Len(str) = 0 THEN 0
  ELSE 10 * ParseInt(SubSeq(str, 1, Len(str) - 1))
         + (IndexIn(CharAt(str, Len(str)), DIGITS) - 1)

----------------------------------------------------------------------------
(* stringToSeed                                                            *)

DEFAULT_SEED == 12345

\* v << 5, wrapped to 32 bits
WShl5(v) == <<((v[1] * 32) + (v[2] \div 2048)) % H16, (v[2] * 32) % H16>>

\* the sign kept
WSigned(v) == v

\* Math.abs of the signed 32-bit integer with bit pattern v, as a 32-bit
\* unsigned number
WAbs(v) == IF v[1] >= 32768 THEN WNeg(v) ELSE v

\* the loop of stringToSeed after i characters
RECURSIVE HashPrefix(_, _)
HashPrefix(str, i) ==
  IF i = 0 THEN <<0, 0>>
  ELSE LET hash == HashPrefix(str, i - 1)
       IN  WAdd(WAdd(WShl5(hash), WNeg(hash)), ToWord(CharCodeAt(str, i)))

stringToSeed(str) ==
  IF str = "" THEN ToWord(DEFAULT_SEED) ELSE WAbs(HashPrefix(str, Len(str)))

----------------------------------------------------------------------------
(* Numbers of the form i + f / 2^32, f a 32-bit word                       *)

Fx(i, f) == [int |-> i, frac |-> f]

\* (u / 4294967296) * k for a word u and a small integer k >= 0
MulFraction(u, k) ==
  LET lo == u[2] * k
      hi == (u[1] * k) + (lo \div H16)
  IN  Fx(hi \div H16, <<hi % H16, lo % H16>>)

FxAddInt(a, k) == Fx(a.int + k, a.frac)

FxMulInt(a, k) ==
  LET lo == a.frac[2] * k
      hi == (a.frac[1] * k) + (lo \div H16)
  IN  Fx((a.int * k) + (hi \div H16), <<hi % H16, lo % H16>>)

FxAdd(a, b) ==
  LET lo == a.frac[2] + b.frac[2]
      hi == a.frac[1] + b.frac[1] + (lo \div H16)
  IN  Fx(a.int + b.int + (hi \div H16), <<hi % H16, lo % H16>>)

\* a % k for a >= 0
FxMod(a, k) == Fx(a.int % k, a.frac)

MathFloor(a) == a.int

\* Math.round: the nearest integer, halves upwards
MathRound(a) == IF a.frac[1] >= 32768 THEN a.int + 1 ELSE a.int

\* the value of the n-th call (n >= 1) of a stream created with state0
RECURSIVE NthState(_, _)
NthState(state0, n) == IF n = 0 THEN state0 ELSE NextState(NthState(state0, n - 1))

Draw(state0, n) == StreamOutput(NthState(state0, n))

----------------------------------------------------------------------------
(* generateColorPalette                                                    *)

\* `hsl(${Math.round(hue)}, ${Math.round(saturation)}%, ${Math.round(lightness)}%)`
FormatHslFloor(hue, saturation, lightness) ==
  "hsl(" \o ToString(MathFloor(hue)) \o ", " \o ToString(MathFloor(saturation))
    \o "%, " \o ToString(MathFloor(lightness)) \o "%)"

\* the colour string of line 104
FormatHsl(hue, saturation, lightness) ==
  "hsl(" \o ToString(MathRound(hue)) \o ", " \o ToString(MathRound(saturation))
    \o "%, " \o ToString(MathRound(lightness)) \o "%)"

\* the colour pushed in iteration i (from 0) of the loop: the stream has been
\* called twice before the loop and three times in every iteration
PaletteColor(state0, baseHue, i) ==
  LET hueOffset  == FxMulInt(FxAddInt(MulFraction(Draw(state0, 3 + (3 * i)), 30), 15), i)
      hue        == FxMod(FxAdd(baseHue, hueOffset), 360)
      saturation == FxAddInt(MulFraction(Draw(state0, 4 + (3 * i)), 25), 25)
      lightness  == FxAddInt(MulFraction(Draw(state0, 5 + (3 * i)), 20), 65)
  IN  FormatHsl(hue, saturation, lightness)

generateColorPalette(seed) ==
  LET random     == createSeededRandom(seed)
      baseHue    == MulFraction(Draw(random, 1), 360)
      colorCount == 2 + MathFloor(MulFraction(Draw(random, 2), 2))
  IN  [i \in 1..colorCount |-> PaletteColor(random, baseHue, i - 1)]

----------------------------------------------------------------------------
(* hslToRgb                                                                *)

\* hsl.match(/hsl\((\d+),\s*(\d+)%,\s*(\d+)%\)/) tried at position i: the
\* three captured groups, or <<>> when the expression does not match there.
\* Each \d+ and \s* takes the longest run: what follows it is no digit and no
\* white space, so no shorter run can match.
MatchLightness(hsl, hueText, satText, l1, l2) ==
  IF l2 > l1 /\ StartsWithAt(hsl, l2, "%)")
  THEN <<hueText, satText, SubSeq(hsl, l1, l2 - 1)>>
  ELSE <<>>

MatchLightnessAt(hsl, hueText, satText, l1) ==
  MatchLightness(hsl, hueText, satText, l1, DigitsEnd(hsl, l1))

MatchSaturation(hsl, hueText, s1, s2) ==
  IF s2 > s1 /\ StartsWithAt(hsl, s2, "%,")
  THEN MatchLightnessAt(hsl, hueText, SubSeq(hsl, s1, s2 - 1), SpacesEnd(hsl, s2 + 2))
  ELSE <<>>

MatchSaturationAt(hsl, hueText, s1) ==
  MatchSaturation(hsl, hueText, s1, DigitsEnd(hsl, s1))

MatchHue(hsl, h1, h2) ==
  IF h2 > h1 /\ StartsWithAt(hsl, h2, ",")
  THEN MatchSaturationAt(hsl, SubSeq(hsl, h1, h2 - 1), SpacesEnd(hsl, h2 + 1))
  ELSE <<>>

HslMatchAt(hsl, i) ==
  IF StartsWithAt(hsl, i, "hsl(") THEN MatchHue(hsl, i + 4, DigitsEnd(hsl, i + 4))
  ELSE <<>>

\* the match at the leftmost position, <<>> for no match (null)
HslMatch(hsl) ==
  IF \E i \in 1..Len(hsl) : HslMatchAt(hsl, i) # <<>>
  THEN HslMatchAt(hsl, CHOOSE i \in 1..Len(hsl) :
                         /\ HslMatchAt(hsl, i) # <<>>
                         /\ \A j \in 1..(i - 1) : HslMatchAt(hsl, j) = <<>>)
  ELSE <<>>

\* hue2rgb with p = pn / 10000, q = qn / 10000 and t = tn / 360 after the two
\* wrapping steps; the result in units of 1 / 600000
Hue2RgbWrapped(pn, qn, t) ==
  IF t < 60 THEN (pn * 60) + ((qn - pn) * t)
  ELSE IF t < 180 THEN qn * 60
  ELSE IF t < 240 THEN (pn * 60) + ((qn - pn) * (240 - t))
  ELSE pn * 60

\* if (t > 1) t -= 1
WrapAbove(t) == IF t > 360 THEN t - 360 ELSE t

\* if (t < 0) t += 1
WrapBelow(t) == IF t < 0 THEN t + 360 ELSE t

hue2rgb(pn, qn, tn) == Hue2RgbWrapped(pn, qn, WrapAbove(WrapBelow(tn)))

\* Math.round(c * 255) for c = cn / 600000
Channel(cn) == ((cn * 510) + 600000) \div 1200000

\* r, g, b for h = hue / 360, p = pn / 10000, q = qn / 10000
RgbOfPQ(hue, pn, qn) ==
  [r |-> Channel(hue2rgb(pn, qn, hue + 120)),
   g |-> Channel(hue2rgb(pn, qn, hue)),
   b |-> Channel(hue2rgb(pn, qn, hue - 120))]

\* q = l < 0.5 ? l * (1 + s) : l + s - l * s, in units of 1 / 10000, for
\* s = sat / 100 and l = light / 100
QOf(sat, light) ==
  IF light < 50 THEN light * (100 + sat) ELSE (100 * light) + (100 * sat) - (light * sat)

\* p = 2 * l - q
POf(light, qn) == (200 * light) - qn

\* r = g = b = l
Gray(light) == [r |-> Channel(light * 6000), g |-> Channel(light * 6000),
                b |-> Channel(light * 6000)]

RgbOfHsl(hue, sat, light) ==
  IF sat = 0 THEN Gray(light)
  ELSE RgbOfPQ(hue, POf(light, QOf(sat, light)), QOf(sat, light))

\* an invalid string taken for black
RgbOfMatchBlack(match) ==
  IF match = <<>> THEN [r |-> 0, g |-> 0, b |-> 0]
  ELSE RgbOfHsl(ParseInt(match[1]), ParseInt(match[2]), ParseInt(match[3]))

\* an invalid string taken for middle gray
RgbOfMatchGray(match) ==
  IF match = <<>> THEN [r |-> 128, g |-> 128, b |-> 128]
  ELSE RgbOfHsl(ParseInt(match[1]), ParseInt(match[2]), ParseInt(match[3]))

RgbOfMatch(match) ==
  IF match = <<>> THEN [r |-> 255, g |-> 255, b |-> 255]
  ELSE RgbOfHsl(ParseInt(match[1]), ParseInt(match[2]), ParseInt(match[3]))

hslToRgb(hsl) == RgbOfMatch(HslMatch(hsl))

----------------------------------------------------------------------------
(* calculateLuminance, calculateContrastRatio, getAdaptiveTextColor        *)

\* val <= 0.03928 ? val / 12.92 : Math.pow((val + 0.055) / 1.055, 2.4) for
\* val = c / 255, c = 0..255, in units of 1 / 100000
LINEAR_CHANNEL ==
  << 0, 30, 61, 91, 121, 152, 182, 212, 243, 273, 304, 335,
     368, 402, 439, 478, 518, 561, 605, 651, 700, 750, 802, 857,
     913, 972, 1033, 1096, 1161, 1229, 1298, 1370, 1444, 1521, 1600, 1681,
     1764, 1850, 1938, 2029, 2122, 2217, 2315, 2416, 2519, 2624, 2732, 2843,
     2956, 3071, 3190, 3310, 3434, 3560, 3689, 3820, 3955, 4092, 4231, 4374,
     4519, 4667, 4817, 4971, 5127, 5286, 5448, 5613, 5781, 5951, 6125, 6301,
     6480, 6663, 6848, 7036, 7227, 7421, 7619, 7819, 8022, 8228, 8438, 8650,
     8866, 9084, 9306, 9531, 9759, 9990, 10224, 10462, 10702, 10946, 11193, 11444,
     11697, 11954, 12214, 12477, 12744, 13014, 13287, 13563, 13843, 14126, 14413, 14703,
     14996, 15293, 15593, 15896, 16203, 16513, 16827, 17144, 17465, 17789, 18116, 18447,
     18782, 19120, 19462, 19807, 20156, 20508, 20864, 21223, 21586, 21953, 22323, 22697,
     23074, 23455, 23840, 24228, 24620, 25016, 25415, 25818, 26225, 26636, 27050, 27468,
     27889, 28315, 28744, 29177, 29614, 30054, 30499, 30947, 31399, 31855, 32314, 32778,
     33245, 33716, 34191, 34670, 35153, 35640, 36131, 36625, 37124, 37626, 38133, 38643,
     39157, 39676, 40198, 40724, 41254, 41789, 42327, 42869, 43415, 43966, 44520, 45079,
     45641, 46208, 46778, 47353, 47932, 48515, 49102, 49693, 50289, 50888, 51492, 52100,
     52712, 53328, 53948, 54572, 55201, 55834, 56471, 57112, 57758, 58408, 59062, 59720,
     60383, 61050, 61721, 62396, 63076, 63760, 64448, 65141, 65837, 66539, 67244, 67954,
     68669, 69387, 70110, 70838, 71569, 72306, 73046, 73791, 74540, 75294, 76052, 76815,
     77582, 78354, 79130, 79910, 80695, 81485, 82279, 83077, 83880, 84687, 85499, 86316,
     87137, 87962, 88792, 89627, 90466, 91310, 92158, 93011, 93869, 94731, 95597, 96469,
     97345, 98225, 99110, 100000 >>

\* the unit of a luminance: 1 is LUM_ONE
LUM_ONE == 10000

\* 0.2126 * rs + 0.7152 * gs + 0.0722 * bs, to the nearest 1 / LUM_ONE
calculateLuminance(r, g, b) ==
  ((2126 * LINEAR_CHANNEL[r + 1]) + (7152 * LINEAR_CHANNEL[g + 1])
     + (722 * LINEAR_CHANNEL[b + 1]) + 50000) \div 100000

\* 0.05 in units of 1 / LUM_ONE
OFFSET_005 == 500

RECURSIVE Gcd(_, _)
Gcd(a, b) == IF b = 0 THEN a ELSE Gcd(b, a % b)

\* A number n / d with n >= 0 and d >= 0, as the division of JavaScript
\* yields it: 0 / 0 is NaN and n / 0 with n > 0 is Infinity. The fraction is
\* kept in lowest terms.
Rat(n, d) ==
  IF n = 0 /\ d = 0 THEN [n |-> 0, d |-> 0]
  ELSE [n |-> n \div Gcd(n, d), d |-> d \div Gcd(n, d)]

IsNaN(a) == a.d = 0 /\ a.n = 0

IsInfinity(a) == a.d = 0 /\ a.n > 0

IsFinite(a) == a.d > 0

RatEq(a, b) == ~IsNaN(a) /\ ~IsNaN(b) /\ a.n * b.d = b.n * a.d

RatMul(a, b) == Rat(a.n * b.n, a.d * b.d)

RatDiv(a, b) == Rat(a.n * b.d, a.d * b.n)

RatLess(a, b) == ~IsNaN(a) /\ ~IsNaN(b) /\ a.n * b.d < b.n * a.d

\* Math.max and Math.min: NaN when either argument is NaN
MathMax(a, b) == IF IsNaN(a) THEN a ELSE IF IsNaN(b) THEN b ELSE IF RatLess(a, b) THEN b ELSE a

MathMin(a, b) == IF IsNaN(a) THEN a ELSE IF IsNaN(b) THEN b ELSE IF RatLess(b, a) THEN b ELSE a

\* the luminance of one colour of the list (lines 195-196)
LuminanceOfRgb(rgb) == calculateLuminance(rgb.r, rgb.g, rgb.b)

RECURSIVE TotalLuminance(_, _)
TotalLuminance(colors, k) ==
  IF k = 0 THEN 0
  ELSE TotalLuminance(colors, k - 1) + LuminanceOfRgb(hslToRgb(colors[k]))

\* totalLuminance / colors.length, in units of 1 / LUM_ONE
\* the sum not divided by the number of colours
calculateGradientLuminanceSum(colors) == Rat(TotalLuminance(colors, Len(colors)), 1)

calculateGradientLuminance(colors) == Rat(TotalLuminance(colors, Len(colors)), Len(colors))

\* (lighter + 0.05) / (darker + 0.05) for luminances in units of 1 / LUM_ONE
ContrastOf(lighter, darker) ==
  IF IsNaN(lighter) \/ IsNaN(darker) THEN Rat(0, 0)
  ELSE Rat((lighter.n + (lighter.d * OFFSET_005)) * darker.d,
           (darker.n + (darker.d * OFFSET_005)) * lighter.d)

calculateContrastRatio(lum1, lum2) == ContrastOf(MathMax(lum1, lum2), MathMin(lum1, lum2))

WHITE == "#ffffff"
BLACK == "#000000"

\* the colour of the smaller contrast
TextColorOfLowerContrast(gradientLuminance) ==
  IF RatLess(calculateContrastRatio(gradientLuminance, Rat(0, 1)),
             calculateContrastRatio(gradientLuminance, Rat(LUM_ONE, 1)))
  THEN BLACK ELSE WHITE

\* the colours as CSS keywords instead of hex strings
TextColorKeyword(gradientLuminance) ==
  IF RatLess(calculateContrastRatio(gradientLuminance, Rat(0, 1)),
             calculateContrastRatio(gradientLuminance, Rat(LUM_ONE, 1)))
  THEN "white" ELSE "black"

\* lines 213-226, for the luminance of the gradient
TextColorFor(gradientLuminance) ==
  LET whiteLuminance    == Rat(LUM_ONE, 1)
      blackLuminance    == Rat(0, 1)
      contrastWithWhite == calculateContrastRatio(gradientLuminance, whiteLuminance)
      contrastWithBlack == calculateContrastRatio(gradientLuminance, blackLuminance)
  IN  IF RatLess(contrastWithBlack, contrastWithWhite) THEN WHITE ELSE BLACK

getAdaptiveTextColor(colors) == TextColorFor(calculateGradientLuminance(colors))

----------------------------------------------------------------------------
(* generateGradientCSS                                                     *)

DEFAULT_GRADIENT == "linear-gradient(135deg, #667eea 0%, #764ba2 100%)"

\* 2^s modulo m, by squaring
RECURSIVE PowMod2(_, _)
PowMod2(s, m) ==
  IF s = 0 THEN 1 % m
  ELSE IF s % 2 = 1 THEN (2 * PowMod2(s - 1, m)) % m
  ELSE (PowMod2(s \div 2, m) * PowMod2(s \div 2, m)) % m

\* the exponent of the highest power of two that is at most k (k >= 1)
RECURSIVE Log2Floor(_)
Log2Floor(k) == IF k < 2 THEN 0 ELSE 1 + Log2Floor(k \div 2)

\* the least e >= start with 2^-e <= i / m, for 0 < i < m
RECURSIVE BinaryExponent(_, _, _)
BinaryExponent(i, m, start) ==
  IF i * Pow2(start) >= m THEN start ELSE BinaryExponent(i, m, start + 1)

\* Math.round((i / m) * c) when c * i / m is exactly k + 1/2, for 0 < i < m.
\* The quotient i / m is a double with 53 significant bits: with
\* 2^-e <= i / m < 2^(1-e) it is the multiple of 2^-(52+e) nearest to i / m
\* (halves to the even one), short of i / m by (rest / m) * 2^-(52+e) when
\* rounded down. The product with c is then short of k + 1/2 by
\* (c * rest / m) * 2^-(52+e), and the double of the product is below k + 1/2,
\* so that Math.round gives k, exactly when that is more than half the
\* distance 2^(E-52) between the doubles at k + 1/2, where 2^E <= k + 1/2
\* (below 1/2, a power of two, the distance is half of that).
ScaledRoundAtHalf(i, m, c, k) ==
  LET e        == BinaryExponent(i, m, 1)
      rest     == (i * PowMod2(52 + e, m)) % m
      rest2    == (i * PowMod2(52 + e, 2 * m)) % (2 * m)
      down     == (rest > 0 /\ 2 * rest < m) \/ (2 * rest = m /\ rest2 < m)
      halfStep == IF k >= 1 THEN Log2Floor(k) + e - 1 ELSE e - 3
  IN  IF down /\ c * rest > m * Pow2(halfStep) THEN k ELSE k + 1

\* Math.round((i / m) * c) for 0 <= i <= m: off a half the rounding errors
\* of the doubles (below 2^-40) are far smaller than the distance of c * i / m
\* from the half (1 / (2 * m) or more), and the nearest integer is the exact one
ScaledRound(i, m, c) ==
  LET nearest == ((2 * c * i) + m) \div (2 * m)
  IN  IF i = 0 THEN 0
      ELSE IF i = m THEN c
      ELSE IF (2 * c * i) % m = 0 /\ ((2 * c * i) \div m) % 2 = 1
           THEN ScaledRoundAtHalf(i, m, c, nearest - 1)
      ELSE nearest

\* Math.round((i / (colors.length - 1)) * 100) for the stop with index i (from 0)
PercentPosition(i, n) == ScaledRound(i, n - 1, 100)

\* the last stop at 360 degrees, closing the circle
DegreePositionClosed(i, n) == ScaledRound(i, n - 1, 360)

\* Math.round((i / colors.length) * 360)
DegreePosition(i, n) == ScaledRound(i, n, 360)

\* the stops of the colours from..to joined by ', ', the two halves of the
\* range one after the other
RECURSIVE PercentStopsBetween(_, _, _)
PercentStopsBetween(colors, from, to) ==
  IF from = to
  THEN colors[from] \o " " \o ToString(PercentPosition(from - 1, Len(colors))) \o "%"
  ELSE PercentStopsBetween(colors, from, (from + to) \div 2) \o ", "
         \o PercentStopsBetween(colors, ((from + to) \div 2) + 1, to)

\* colors.map(...).join(', ') over the first k colours
PercentStops(colors, k) == PercentStopsBetween(colors, 1, k)

RECURSIVE DegreeStopsBetween(_, _, _)
DegreeStopsBetween(colors, from, to) ==
  IF from = to
  THEN colors[from] \o " " \o ToString(DegreePosition(from - 1, Len(colors))) \o "deg"
  ELSE DegreeStopsBetween(colors, from, (from + to) \div 2) \o ", "
         \o DegreeStopsBetween(colors, ((from + to) \div 2) + 1, to)

DegreeStops(colors, k) == DegreeStopsBetween(colors, 1, k)

\* the angle drawn before the length of the list is looked at
GradientDrawsBeforeLengthCheck(colors, type, hasAngle) ==
  IF type = "linear" THEN (IF hasAngle THEN 0 ELSE 1)
  ELSE IF type = "radial" THEN 2
  ELSE IF type = "conic" THEN 1
  ELSE 0

\* how often generateGradientCSS calls random()
GradientDraws(colors, type, hasAngle) ==
  IF Len(colors) < 2 THEN 0
  ELSE IF type = "linear" THEN (IF hasAngle THEN 0 ELSE 1)
  ELSE IF type = "radial" THEN 2
  ELSE IF type = "conic" THEN 1
  ELSE 0

\* customAngle taken for the start angle of a conic gradient too
generateGradientCSSAngleEverywhere(colors, type, random, hasAngle, customAngle) ==
  IF Len(colors) = 0 THEN DEFAULT_GRADIENT
  ELSE IF Len(colors) = 1 THEN colors[1]
  ELSE IF type = "linear" THEN
    "linear-gradient("
      \o ToString(IF hasAngle THEN customAngle
                  ELSE MathRound(MulFraction(Draw(random, 1), 360)))
      \o "deg, " \o PercentStops(colors, Len(colors)) \o ")"
  ELSE IF type = "radial" THEN
    "radial-gradient(circle at "
      \o ToString(30 + MathRound(MulFraction(Draw(random, 1), 40))) \o "% "
      \o ToString(30 + MathRound(MulFraction(Draw(random, 2), 40))) \o "%, "
      \o PercentStops(colors, Len(colors)) \o ")"
  ELSE IF type = "conic" THEN
    "conic-gradient(from "
      \o ToString(IF hasAngle THEN customAngle
                  ELSE MathRound(MulFraction(Draw(random, 1), 360)))
      \o "deg, " \o DegreeStops(colors, Len(colors)) \o ")"
  ELSE colors[1]

\* the returned string; random is the state of the stream at the call, and
\* hasAngle says whether customAngle is defined
generateGradientCSS(colors, type, random, hasAngle, customAngle) ==
  IF Len(colors) = 0 THEN DEFAULT_GRADIENT
  ELSE IF Len(colors) = 1 THEN colors[1]
  ELSE IF type = "linear" THEN
    LET angle == IF hasAngle THEN customAngle
                 ELSE MathRound(MulFraction(Draw(random, 1), 360))
    IN  "linear-gradient(" \o ToString(angle) \o "deg, "
          \o PercentStops(colors, Len(colors)) \o ")"
  ELSE IF type = "radial" THEN
    LET xPos == 30 + MathRound(MulFraction(Draw(random, 1), 40))
        yPos == 30 + MathRound(MulFraction(Draw(random, 2), 40))
    IN  "radial-gradient(circle at " \o ToString(xPos) \o "% " \o ToString(yPos) \o "%, "
          \o PercentStops(colors, Len(colors)) \o ")"
  ELSE IF type = "conic" THEN
    LET startAngle == MathRound(MulFraction(Draw(random, 1), 360))
    IN  "conic-gradient(from " \o ToString(startAngle) \o "deg, "
          \o DegreeStops(colors, Len(colors)) \o ")"
  ELSE colors[1]

----------------------------------------------------------------------------
(* generateLabelGradient, statement by statement                           *)

\* the last branch names a type generateGradientCSS has no case for
AutoTypeMisspelt(u) ==
  IF u[1] < 32768 THEN "linear"
  ELSE IF u[1] < 52428 \/ (u[1] = 52428 /\ u[2] <= 52428) THEN "radial"
  ELSE "conical"

\* the lower half of the values given to radial, the next 0.3 to linear
AutoTypeRadialFirst(u) ==
  IF u[1] < 32768 THEN "radial"
  ELSE IF u[1] < 52428 \/ (u[1] = 52428 /\ u[2] <= 52428) THEN "linear" ELSE "conic"

\* typeChoice < 0.5 and typeChoice < 0.8 for typeChoice = u / 4294967296:
\* 0.5 * 2^32 = 0x80000000, and u < 0.8 * 2^32 exactly when u <= 0xCCCCCCCC
AutoType(u) ==
  IF u[1] < 32768 THEN "linear"
  ELSE IF u[1] < 52428 \/ (u[1] = 52428 /\ u[2] <= 52428) THEN "radial"
  ELSE "conic"

DARK_SHADOW == "0 1px 3px rgba(0, 0, 0, 0.3), 0 1px 2px rgba(0, 0, 0, 0.2)"
LIGHT_SHADOW == "0 1px 2px rgba(255, 255, 255, 0.8), 0 0 1px rgba(255, 255, 255, 0.5)"

\* options?.seed ? options.seed : stringToSeed(labelName): a truthiness test,
\* which takes the seed 0 for an absent one
SeedOfTruthy(labelName, options) ==
  IF options.hasSeed /\ options.seed # <<0, 0>> THEN options.seed
  ELSE stringToSeed(labelName)

\* options?.seed !== undefined ? options.seed : stringToSeed(labelName)
SeedOf(labelName, options) ==
  IF options.hasSeed THEN options.seed ELSE stringToSeed(labelName)

\* options.colors.length > 1: a list of one colour is taken for none
ColorsOfLongerThanOne(options, seed) ==
  IF options.hasColors /\ Len(options.colors) > 1 THEN options.colors
  ELSE generateColorPalette(seed)

\* options?.colors ? options.colors : generateColorPalette(seed): the length is
\* not looked at
ColorsOfAnyList(options, seed) ==
  IF options.hasColors THEN options.colors ELSE generateColorPalette(seed)

\* options?.colors && options.colors.length > 0 ? options.colors : generateColorPalette(seed)
ColorsOf(options, seed) ==
  IF options.hasColors /\ Len(options.colors) > 0 THEN options.colors
  ELSE generateColorPalette(seed)

\* the two shadows exchanged
TextShadowSwapped(textColor) == IF textColor = WHITE THEN LIGHT_SHADOW ELSE DARK_SHADOW

\* lines 351-354
TextShadowOf(textColor) == IF textColor = WHITE THEN DARK_SHADOW ELSE LIGHT_SHADOW

\* type (lines 333-341), for the state of the stream before the choice
TypeOf(gradientType, random) ==
  IF gradientType = "auto" THEN AutoType(StreamOutput(NextState(random)))
  ELSE gradientType

\* the state of the stream after the choice of the type
RandomAfterType(gradientType, random) ==
  IF gradientType = "auto" THEN NextState(random) ELSE random

\* the returned object (lines 356-361)
ConfigOf(colors, gradient, textColor) ==
  [gradient |-> gradient, textColor |-> textColor,
   textShadow |-> TextShadowOf(textColor), colors |-> colors]

\* lines 324-354 for the seed and the colours chosen
ConfigFor(gradientType, options, seed, colors) ==
  ConfigOf(colors,
           generateGradientCSS(colors,
                               TypeOf(gradientType, createSeededRandom(seed)),
                               RandomAfterType(gradientType, createSeededRandom(seed)),
                               options.hasAngle, options.angle),
           getAdaptiveTextColor(colors))

\* ColorsOf for the seed of the call
ConfigForSeed(gradientType, options, seed) ==
  ConfigFor(gradientType, options, seed, ColorsOf(options, seed))

\* generateLabelGradient as a function of its arguments (lines 316-362)
generateLabelGradient(labelName, gradientType, options) ==
  ConfigForSeed(gradientType, options, SeedOf(labelName, options))

----------------------------------------------------------------------------
(* Calls of generateLabelGradient                                          *)

\* the arguments the calls are made with
LabelNames == {"", "Test", "X"}

GradientTypes == {"linear", "radial", "conic", "auto"}

SeedValues == {ToWord(0), ToWord(1)}

ColorLists ==
  { <<>>,
    <<"#ff0000">>,
    <<"">>,
    <<"hsl(0, 50%, 20%)", "hsl(120, 50%, 20%)">>,
    <<"#000000", "#111111">>,
    <<"#112233", "rgb(0, 0, 0)", "hsl(240, 100%, 50%)">> }

AngleValues == {0, 90, -45}

\* options; an absent field (undefined) has its has-flag FALSE
NoOptions ==
  [hasSeed |-> FALSE, seed |-> <<0, 0>>, hasColors |-> FALSE, colors |-> <<>>,
   hasAngle |-> FALSE, angle |-> 0]

OptionValues ==
  { [hasSeed |-> hs, seed |-> sd, hasColors |-> hc, colors |-> cl,
     hasAngle |-> ha, angle |-> an] :
      hs \in BOOLEAN, sd \in SeedValues, hc \in BOOLEAN, cl \in ColorLists,
      ha \in BOOLEAN, an \in AngleValues }

\* one record per options value
Canonical(o) ==
  /\ (~o.hasSeed => o.seed = NoOptions.seed)
  /\ (~o.hasColors => o.colors = NoOptions.colors)
  /\ (~o.hasAngle => o.angle = NoOptions.angle)

Options == {o \in OptionValues : Canonical(o)}

----------------------------------------------------------------------------
(* FloppyDisk: the font scales of the label lines                          *)

FONT_SCALE_MIN == Rat(4, 10)
FONT_SCALE_MAX == Rat(15, 10)
FONT_SCALE_DEFAULT == Rat(1, 1)
LABEL_WIDTH_RATIO == Rat(88, 100)
NAME_LINE_INDEX == 0
AUTHOR_LINE_INDEX == 1
TRANSFORM_CENTER_PERCENT == "-50%"
INITIAL_FONT_SCALES == <<Rat(1, 1), Rat(1, 1)>>

\* the widths the layout can report (offsetWidth, scrollWidth), in pixels
MaxWidthSteps == 5
Widths == {100 * k : k \in 0..MaxWidthSteps}

\* the label prop: absent, or a name and an author
NoLabel == [present |-> FALSE, name |-> "", author |-> ""]
Labels ==
  {NoLabel} \cup {[present |-> TRUE, name |-> n, author |-> a] :
                    n \in {"", "Test"}, a \in {"", "Me"}}

SizesInPx == {200, 400}

\* labelLines (lines 228-240)
LabelLinesOf(label) == IF label.present THEN <<label.name, label.author>> ELSE <<"", "">>

\* the upper bound left out
ClampScaleNoMax(scale) == MathMax(FONT_SCALE_MIN, scale)

\* Math.max(FONT_SCALE_MIN, Math.min(FONT_SCALE_MAX, scale)) (lines 319-322)
ClampScale(scale) == MathMax(FONT_SCALE_MIN, MathMin(FONT_SCALE_MAX, scale))

\* the padding left out: containerWidth / textWidth
RawScaleNoPadding(containerWidth, textWidth) ==
  RatDiv(Rat(containerWidth, 1), Rat(textWidth, 1))

\* lines 312-313
RawScale(containerWidth, textWidth) ==
  LET availableWidth == RatMul(Rat(containerWidth, 1), LABEL_WIDTH_RATIO)
  IN  RatDiv(availableWidth, Rat(textWidth, 1))

\* every line that has text scaled like the name line
LineScaleEveryLine(labelLines, index, containerWidth, textWidth) ==
  IF labelLines[index + 1] # ""
  THEN ClampScale(RawScale(containerWidth, textWidth))
  ELSE FONT_SCALE_DEFAULT

\* newScales[index] of calculateScales for the line with the given index (from
\* 0); the refs of both lines are attached and have a parent element when the
\* layout effect runs
LineScale(labelLines, index, containerWidth, textWidth) ==
  IF labelLines[index + 1] # ""
  THEN IF index # NAME_LINE_INDEX THEN FONT_SCALE_DEFAULT
       ELSE ClampScale(RawScale(containerWidth, textWidth))
  ELSE FONT_SCALE_DEFAULT

calculateScales(labelLines, containerWidth, textWidth) ==
  [i \in 1..Len(labelLines) |-> LineScale(labelLines, i - 1, containerWidth, textWidth)]

\* the transform of the line with the given index (from 0) in the render (lines
\* 401-419): the translation written before the scale, and the arguments of
\* scaleX, none when the transform has no scaleX
LineTransform(fontScales, index) ==
  IF index = NAME_LINE_INDEX
  THEN [translate |-> "translate(" \o TRANSFORM_CENTER_PERCENT \o ", "
                        \o TRANSFORM_CENTER_PERCENT \o ")",
        scaleX |-> <<fontScales[index + 1]>>]
  ELSE IF index = AUTHOR_LINE_INDEX
  THEN [translate |-> "translateX(" \o TRANSFORM_CENTER_PERCENT \o ")", scaleX |-> <<>>]
  ELSE [translate |-> "", scaleX |-> <<fontScales[index + 1]>>]

----------------------------------------------------------------------------
(* Activations of generateLabelGradient                                    *)

IdleFrame ==
  [pc |-> "idle", labelName |-> "", gradientType |-> "auto", options |-> NoOptions,
   seed |-> <<0, 0>>, random |-> <<0, 0>>, drawn |-> 0, colors |-> <<>>,
   type |-> "", gradient |-> "", textColor |-> "", textShadow |-> ""]

----------------------------------------------------------------------------
(* State                                                                   *)

\* mergedTheme (line 108) as far as the label paint reads it; gradientType ""
\* is undefined
PlainTheme ==
  [enableGradient |-> FALSE, gradientType |-> "", gradientOptions |-> NoOptions,
   labelColor |-> "#ffffff", labelTextColor |-> "#000000"]

\* the custom properties of the label in cssVariables (lines 152-160)
NoPaint == [labelColor |-> "", labelTextColor |-> "", labelTextShadow |-> ""]

\* no event dispatched yet
NoEvent == [type |-> "none", key |-> "", defaultPrevented |-> FALSE]

\* label, sizeInPx and disabled are the props of the last render, labelObject
\* tells one label object from the next, fontScales is the state of line 113,
\* containerWidth and textWidth are the widths the layout effect read last and
\* layoutWidth is the width the label area has now; onClickCalls counts the
\* calls of the onClick prop and dispatched the events; theme is mergedTheme
\* of the last render and optionsObject tells one gradientOptions object from
\* the next, memoDeps and gradientConfig are the dependencies and the value
\* useMemo has stored (<<>> is null), cssVariables what the render painted
Unmounted ==
  [mounted |-> FALSE, label |-> NoLabel, labelObject |-> 0, sizeInPx |-> 200,
   fontScales |-> INITIAL_FONT_SCALES,
   containerWidth |-> 0, textWidth |-> 0, layoutWidth |-> 0,
   disabled |-> FALSE, onClickCalls |-> 0, dispatched |-> 0, event |-> NoEvent,
   theme |-> PlainTheme, optionsObject |-> 0, memoDeps |-> <<>>,
   gradientConfig |-> <<>>, cssVariables |-> NoPaint]

\* no direct call yet
NoProbe ==
  [op |-> "none", colors |-> <<>>, type |-> "", random |-> <<0, 0>>,
   hasAngle |-> FALSE, customAngle |-> 0, seed |-> <<0, 0>>, str |-> "",
   text |-> "", list |-> <<>>, word |-> <<0, 0>>, after |-> <<0, 0>>, pulls |-> 0]

Init ==
  /\ frames = [c \in Frames |-> IdleFrame]
  /\ disk = Unmounted
  /\ probe = NoProbe

\* lines 321-324: the seed and the stream of the call
Call(c, labelName, gradientType, options) ==
  /\ frames[c].pc = "idle"
  /\ LET seed == SeedOf(labelName, options)
     IN  frames' = [frames EXCEPT ![c] =
           [IdleFrame EXCEPT !.pc = "colors", !.labelName = labelName,
                             !.gradientType = gradientType, !.options = options,
                             !.seed = seed, !.random = createSeededRandom(seed)]]
  /\ UNCHANGED <<disk, probe>>

\* lines 326-330: the colours
ChooseColors(c) ==
  /\ frames[c].pc = "colors"
  /\ frames' = [frames EXCEPT ![c].pc = "type",
                              ![c].colors = ColorsOf(frames[c].options, frames[c].seed)]
  /\ UNCHANGED <<disk, probe>>

\* lines 332-341: the gradient type
ChooseType(c) ==
  /\ frames[c].pc = "type"
  /\ IF frames[c].gradientType = "auto"
     THEN frames' = [frames EXCEPT ![c].pc = "css",
                                   ![c].random = NextState(frames[c].random),
                                   ![c].drawn = 1,
                                   ![c].type = AutoType(StreamOutput(NextState(frames[c].random)))]
     ELSE frames' = [frames EXCEPT ![c].pc = "css",
                                   ![c].type = frames[c].gradientType]
  /\ UNCHANGED <<disk, probe>>

\* line 344: the gradient string
MakeGradient(c) ==
  /\ frames[c].pc = "css"
  /\ LET f == frames[c]
         n == GradientDraws(f.colors, f.type, f.options.hasAngle)
     IN  frames' = [frames EXCEPT ![c].pc = "text",
                                  ![c].gradient =
                                     generateGradientCSS(f.colors, f.type, f.random,
                                                         f.options.hasAngle, f.options.angle),
                                  ![c].random = NthState(f.random, n),
                                  ![c].drawn = f.drawn + n]
  /\ UNCHANGED <<disk, probe>>

\* lines 347-354: the text colour and its shadow
ChooseText(c) ==
  /\ frames[c].pc = "text"
  /\ LET textColor == getAdaptiveTextColor(frames[c].colors)
     IN  frames' = [frames EXCEPT ![c].pc = "done",
                                  ![c].textColor = textColor,
                                  ![c].textShadow = TextShadowOf(textColor)]
  /\ UNCHANGED <<disk, probe>>

\* the caller drops the returned configuration
Return(c) ==
  /\ frames[c].pc = "done"
  /\ frames' = [frames EXCEPT ![c] = IdleFrame]
  /\ UNCHANGED <<disk, probe>>

Step(c) ==
  \/ ChooseColors(c)
  \/ ChooseType(c)
  \/ MakeGradient(c)
  \/ ChooseText(c)
  \/ Return(c)

\* one call at a time, with every argument value
Next ==
  \/ \E labelName \in LabelNames, gradientType \in GradientTypes, options \in Options :
       Call(1, labelName, gradientType, options)
  \/ Step(1)

Spec == Init /\ [][Next]_vars

\* Two calls, each stepping on its own: every order in which JavaScript can run
\* two calls one after the other is among the interleavings. The arguments are
\* the ones without an angle, with seed 0 or none and with the two dark hsl
\* colours or none.
ConcurrentLabelNames == {"", "Test"}

ConcurrentOptions ==
  {o \in Options : /\ ~o.hasAngle
                   /\ o.seed = <<0, 0>>
                   /\ (o.hasColors => o.colors = <<"hsl(0, 50%, 20%)", "hsl(120, 50%, 20%)">>)}

NextConcurrent ==
  \E c \in Frames :
    \/ \E labelName \in ConcurrentLabelNames, gradientType \in GradientTypes,
          options \in ConcurrentOptions :
         Call(c, labelName, gradientType, options)
    \/ Step(c)

SpecConcurrent == Init /\ [][NextConcurrent]_vars

----------------------------------------------------------------------------
(* The component                                                           *)

\* The first render with its layout effect: calculateScales reads the widths
\* of the laid-out label (lines 304-305) and stores the scales (line 329).
Mount(label, sizeInPx, containerWidth, textWidth) ==
  /\ ~disk.mounted
  /\ disk' = [Unmounted EXCEPT
                !.mounted = TRUE, !.label = label, !.sizeInPx = sizeInPx,
                !.fontScales = calculateScales(LabelLinesOf(label), containerWidth,
                                               textWidth),
                !.containerWidth = containerWidth, !.textWidth = textWidth,
                !.layoutWidth = containerWidth]
  /\ UNCHANGED <<frames, probe>>

\* A render with a new label object (newLabel) or a new size: the dependencies
\* [labelLines, sizeInPx] of the layout effect change and it runs again.
\* labelLines is recomputed only for a new label object (line 240).
Rerender(label, newLabel, sizeInPx, containerWidth, textWidth) ==
  /\ disk.mounted
  /\ newLabel \/ sizeInPx # disk.sizeInPx
  /\ ~newLabel => label = disk.label
  /\ disk' = [disk EXCEPT !.label = label,
                          !.labelObject = IF newLabel THEN 1 - disk.labelObject
                                          ELSE disk.labelObject,
                          !.sizeInPx = sizeInPx,
                          !.fontScales = calculateScales(LabelLinesOf(label),
                                                         containerWidth, textWidth),
                          !.containerWidth = containerWidth, !.textWidth = textWidth,
                          !.layoutWidth = containerWidth]
  /\ UNCHANGED <<frames, probe>>

\* the layout effect run for every render
RerenderOtherPropMeasured(containerWidth) ==
  /\ disk.mounted
  /\ disk' = [disk EXCEPT !.fontScales = calculateScales(LabelLinesOf(disk.label),
                                                         containerWidth, disk.textWidth),
                          !.containerWidth = containerWidth,
                          !.layoutWidth = containerWidth]
  /\ UNCHANGED <<frames, probe>>

\* A render with the same label object and the same size and another prop
\* changed (variant, theme, className, style, ...), after which the label area
\* is containerWidth wide: no dependency of the layout effect (line 335)
\* changed, it does not run and nothing is measured.
RerenderOtherProp(containerWidth) ==
  /\ disk.mounted
  /\ disk' = [disk EXCEPT !.layoutWidth = containerWidth]
  /\ UNCHANGED <<frames, probe>>

Unmount ==
  /\ disk.mounted
  /\ disk' = Unmounted
  /\ UNCHANGED <<frames, probe>>

NextDisk ==
  \/ \E label \in Labels, sizeInPx \in SizesInPx, containerWidth \in Widths,
        textWidth \in Widths :
       \/ Mount(label, sizeInPx, containerWidth, textWidth)
       \/ \E newLabel \in BOOLEAN :
            Rerender(label, newLabel, sizeInPx, containerWidth, textWidth)
  \/ \E containerWidth \in {100, 300} : RerenderOtherProp(containerWidth)
  \/ Unmount

SpecDisk == Init /\ [][NextDisk]_vars

----------------------------------------------------------------------------
(* The component: click and keyboard events                                *)

\* Space taken for an activation when the key goes down
handleKeyDownSpace(disabled, key) ==
  IF disabled THEN [calls |-> 0, defaultPrevented |-> FALSE]
  ELSE IF key = "Enter" \/ key = " " THEN [calls |-> 1, defaultPrevented |-> TRUE]
  ELSE [calls |-> 0, defaultPrevented |-> FALSE]

\* handleClick (lines 180-182), with an onClick prop: the number of calls of
\* onClick, and whether preventDefault was called
handleClick(disabled) ==
  IF ~disabled THEN [calls |-> 1, defaultPrevented |-> FALSE]
  ELSE [calls |-> 0, defaultPrevented |-> FALSE]

\* handleKeyDown (lines 204-216)
handleKeyDown(disabled, key) ==
  IF disabled THEN [calls |-> 0, defaultPrevented |-> FALSE]
  ELSE IF key = "Enter" THEN [calls |-> 1, defaultPrevented |-> TRUE]
  ELSE IF key = " " THEN [calls |-> 0, defaultPrevented |-> TRUE]
  ELSE [calls |-> 0, defaultPrevented |-> FALSE]

\* handleKeyUp (lines 218-225)
handleKeyUp(disabled, key) ==
  IF disabled THEN [calls |-> 0, defaultPrevented |-> FALSE]
  ELSE IF key = " " THEN [calls |-> 1, defaultPrevented |-> TRUE]
  ELSE [calls |-> 0, defaultPrevented |-> FALSE]

\* event.key: Enter, Space and two keys the handlers have no case for
Keys == {"Enter", " ", "a", "Tab"}

MaxEvents == 4

\* the first render, without a label
MountDisabled(disabled) ==
  /\ ~disk.mounted
  /\ disk' = [Unmounted EXCEPT !.mounted = TRUE, !.disabled = disabled]
  /\ UNCHANGED <<frames, probe>>

\* a render with another value of the disabled prop: the handlers of the new
\* render close over it
SetDisabled(disabled) ==
  /\ disk.mounted
  /\ disabled # disk.disabled
  /\ disk' = [disk EXCEPT !.disabled = disabled]
  /\ UNCHANGED <<frames, probe>>

\* the state after an event of the given type whose handler has run
Dispatched(type, key, handled) ==
  [disk EXCEPT !.dispatched = disk.dispatched + 1,
               !.onClickCalls = disk.onClickCalls + handled.calls,
               !.event = [type |-> type, key |-> key,
                          defaultPrevented |-> handled.defaultPrevented]]

\* a click reaches the figure element (line 340)
Click ==
  /\ disk.mounted
  /\ disk.dispatched < MaxEvents
  /\ disk' = Dispatched("click", "", handleClick(disk.disabled))
  /\ UNCHANGED <<frames, probe>>

\* a keydown reaches the figure element (line 346), which has role="button"
\* and is no button element: the browser makes no click out of Enter or Space
KeyDown(key) ==
  /\ disk.mounted
  /\ disk.dispatched < MaxEvents
  /\ disk' = Dispatched("keydown", key, handleKeyDown(disk.disabled, key))
  /\ UNCHANGED <<frames, probe>>

\* a keyup reaches the figure element (line 347)
KeyUp(key) ==
  /\ disk.mounted
  /\ disk.dispatched < MaxEvents
  /\ disk' = Dispatched("keyup", key, handleKeyUp(disk.disabled, key))
  /\ UNCHANGED <<frames, probe>>

NextEvents ==
  \/ \E disabled \in BOOLEAN : MountDisabled(disabled) \/ SetDisabled(disabled)
  \/ Click
  \/ \E key \in Keys : KeyDown(key) \/ KeyUp(key)

SpecEvents == Init /\ [][NextEvents]_vars

----------------------------------------------------------------------------
(* The component: the paint of the label                                   *)

\* the factory of useMemo (lines 123-130): the configuration, or <<>> for null
GradientConfigOf(theme, label) ==
  IF theme.enableGradient /\ label.present /\ label.name # ""
  THEN <<generateLabelGradient(label.name,
                               IF theme.gradientType = "" THEN "auto"
                               ELSE theme.gradientType,
                               theme.gradientOptions)>>
  ELSE <<>>

\* the label left out of the dependencies
MemoDepsWithoutLabel(theme, optionsObject, label, labelObject) ==
  <<theme.enableGradient, theme.gradientType, optionsObject>>

\* the dependencies of useMemo (lines 131-136), objects compared by identity:
\* an absent label is undefined
MemoDeps(theme, optionsObject, label, labelObject) ==
  <<theme.enableGradient, theme.gradientType, optionsObject,
    IF label.present THEN <<labelObject>> ELSE <<>>>>

\* useMemo: the stored value when the dependencies are those of the last
\* render, the value of the factory otherwise
UseMemo(storedDeps, storedValue, deps, theme, label) ==
  IF storedDeps = deps THEN storedValue ELSE GradientConfigOf(theme, label)

\* '--label-color', '--label-text-color' and '--label-text-shadow' (lines
\* 152-160)
LabelPaint(gradientConfig, theme) ==
  IF gradientConfig # <<>>
  THEN [labelColor |-> gradientConfig[1].gradient,
        labelTextColor |-> gradientConfig[1].textColor,
        labelTextShadow |-> gradientConfig[1].textShadow]
  ELSE [labelColor |-> theme.labelColor,
        labelTextColor |-> theme.labelTextColor,
        labelTextShadow |-> "none"]

\* the label props and themes of the renders
PaintLabels ==
  {NoLabel} \cup {[present |-> TRUE, name |-> n, author |-> ""] : n \in {"", "Test", "X"}}

PaintThemes ==
  { [enableGradient |-> e, gradientType |-> t, gradientOptions |-> o,
     labelColor |-> "#ffeb3b", labelTextColor |-> "#333333"] :
      e \in BOOLEAN, t \in {"", "radial"},
      o \in {NoOptions, [NoOptions EXCEPT !.hasSeed = TRUE, !.seed = ToWord(1)]} }

\* the first render: useMemo calls the factory
MountPaint(label, theme) ==
  /\ ~disk.mounted
  /\ disk' = [Unmounted EXCEPT
                !.mounted = TRUE, !.label = label, !.theme = theme,
                !.memoDeps = MemoDeps(theme, 0, label, 0),
                !.gradientConfig = GradientConfigOf(theme, label),
                !.cssVariables = LabelPaint(GradientConfigOf(theme, label), theme)]
  /\ UNCHANGED <<frames, probe>>

\* A later render. Props are not changed in place: a label or gradientOptions
\* with another content is another object (newLabel, newOptions), and a new
\* object may have the content of the old one.
RerenderPaint(label, newLabel, theme, newOptions) ==
  /\ disk.mounted
  /\ ~newLabel => label = disk.label
  /\ ~newOptions => theme.gradientOptions = disk.theme.gradientOptions
  /\ LET labelObject   == IF newLabel THEN 1 - disk.labelObject ELSE disk.labelObject
         optionsObject == IF newOptions THEN 1 - disk.optionsObject
                          ELSE disk.optionsObject
         deps   == MemoDeps(theme, optionsObject, label, labelObject)
         config == UseMemo(disk.memoDeps, disk.gradientConfig, deps, theme, label)
     IN  disk' = [disk EXCEPT !.label = label, !.labelObject = labelObject,
                              !.theme = theme, !.optionsObject = optionsObject,
                              !.memoDeps = deps, !.gradientConfig = config,
                              !.cssVariables = LabelPaint(config, theme)]
  /\ UNCHANGED <<frames, probe>>

NextPaint ==
  \E label \in PaintLabels, theme \in PaintThemes :
    \/ MountPaint(label, theme)
    \/ \E newLabel, newOptions \in BOOLEAN :
         RerenderPaint(label, newLabel, theme, newOptions)

SpecPaint == Init /\ [][NextPaint]_vars

----------------------------------------------------------------------------
(* Direct calls of the functions of gradientUtils.ts                       *)

\* palettes: none, one colour, unparseable ones, dark, light and middle ones
PaletteLists ==
  { <<>>,
    <<"red">>,
    <<"hsl(200, 50%, 70%)">>,
    <<"#123456", "not a color">>,
    <<"hsl(0, 50%, 20%)", "hsl(120, 50%, 20%)">>,
    <<"hsl(60, 50%, 85%)", "hsl(70, 50%, 90%)">>,
    <<"hsl(0, 50%, 20%)", "not a color">>,
    <<"hsl(0, 0%, 46%)", "hsl(0, 0%, 45%)">>,
    <<"hsl(0, 0%, 46%)", "hsl(0, 0%, 47%)">>,
    <<"hsl(0, 0%, 0%)", "hsl(0, 0%, 50%)", "hsl(0, 0%, 100%)">> }

\* the palettes, one of four colours and one of 41 colours, where the stop
\* with index 23 is at 57.5 percent
GradientLists ==
  PaletteLists
    \cup { <<"hsl(0, 50%, 20%)", "red", "#123456", "hsl(120, 50%, 20%)">>,
           [i \in 1..41 |-> "red"] }

\* states a stream can be in when generateGradientCSS gets it
StreamStates ==
  {createSeededRandom(ToWord(0)), NextState(createSeededRandom(ToWord(1))),
   createSeededRandom(ToWord(12345))}

\* seeds: 43 and 167 give a hue that rounds up to 360
PaletteSeeds == {ToWord(0), ToWord(1), ToWord(43), ToWord(167), ToWord(12345), ToWord(2603186)}

\* "Ltdmdta" hashes to -2^31, "f5a5a608" to 0 and "My Disk" and "Windows" to
\* negative numbers
SeedStrings ==
  {"", "A", "X", "Test", "Uw", "Label A", "My Disk", "Windows", "zzzzzzz",
   "Ltdmdta", "f5a5a608"}

\* generateGradientCSS(colors, type, random, customAngle) (lines 238-290)
CallGenerateGradientCSS(colors, type, random, hasAngle, customAngle) ==
  /\ probe = NoProbe
  /\ probe' = [NoProbe EXCEPT !.op = "generateGradientCSS", !.colors = colors,
                              !.type = type, !.random = random,
                              !.hasAngle = hasAngle, !.customAngle = customAngle,
                              !.text = generateGradientCSS(colors, type, random,
                                                           hasAngle, customAngle),
                              !.after = NthState(random,
                                                 GradientDraws(colors, type, hasAngle))]
  /\ UNCHANGED <<frames, disk>>

\* getAdaptiveTextColor(colors) (lines 209-227)
CallGetAdaptiveTextColor(colors) ==
  /\ probe = NoProbe
  /\ probe' = [NoProbe EXCEPT !.op = "getAdaptiveTextColor", !.colors = colors,
                              !.text = getAdaptiveTextColor(colors)]
  /\ UNCHANGED <<frames, disk>>

\* generateColorPalette(seed) (lines 70-109)
CallGenerateColorPalette(seed) ==
  /\ probe = NoProbe
  /\ probe' = [NoProbe EXCEPT !.op = "generateColorPalette", !.seed = seed,
                              !.list = generateColorPalette(seed)]
  /\ UNCHANGED <<frames, disk>>

\* stringToSeed(str) (lines 28-37)
CallStringToSeed(str) ==
  /\ probe = NoProbe
  /\ probe' = [NoProbe EXCEPT !.op = "stringToSeed", !.str = str,
                              !.word = stringToSeed(str)]
  /\ UNCHANGED <<frames, disk>>

\* seeds of the streams pulled directly: the palette seeds, -1 and -2^31
StreamSeeds == PaletteSeeds \cup {<<65535, 65535>>, <<32768, 0>>}

MaxPulls == 4

\* createSeededRandom(seed) (lines 12-13): a stream nothing has been pulled from
CallCreateSeededRandom(seed) ==
  /\ probe = NoProbe
  /\ probe' = [NoProbe EXCEPT !.op = "createSeededRandom", !.seed = seed,
                              !.random = createSeededRandom(seed),
                              !.after = createSeededRandom(seed)]
  /\ UNCHANGED <<frames, disk>>

\* one call of the closure (lines 14-19): after is the state, word the value
\* returned times 2^32
CallRandom ==
  /\ probe.op = "createSeededRandom"
  /\ probe.pulls < MaxPulls
  /\ probe' = [probe EXCEPT !.after = NextState(probe.after),
                            !.word = StreamOutput(NextState(probe.after)),
                            !.pulls = probe.pulls + 1]
  /\ UNCHANGED <<frames, disk>>

\* the caller drops the returned value
Forget ==
  /\ probe # NoProbe
  /\ probe' = NoProbe
  /\ UNCHANGED <<frames, disk>>

\* customAngle undefined, or one of the angles
AngleArguments ==
  {[hasAngle |-> FALSE, customAngle |-> 0]}
    \cup {[hasAngle |-> TRUE, customAngle |-> a] : a \in AngleValues}

NextFunctions ==
  \/ \E colors \in GradientLists, type \in {"linear", "radial", "conic"},
        random \in StreamStates, angle \in AngleArguments :
       CallGenerateGradientCSS(colors, type, random, angle.hasAngle, angle.customAngle)
  \/ \E colors \in PaletteLists : CallGetAdaptiveTextColor(colors)
  \/ \E seed \in PaletteSeeds : CallGenerateColorPalette(seed)
  \/ \E str \in SeedStrings : CallStringToSeed(str)
  \/ \E seed \in StreamSeeds : CallCreateSeededRandom(seed)
  \/ CallRandom
  \/ Forget

SpecFunctions == Init /\ [][NextFunctions]_vars

----------------------------------------------------------------------------
(* Properties of generateLabelGradient                                     *)

Done(c) == frames[c].pc = "done"

\* what a finished call returns
Result(c) ==
  [gradient |-> frames[c].gradient, textColor |-> frames[c].textColor,
   textShadow |-> frames[c].textShadow, colors |-> frames[c].colors]

SameArguments(c, d) ==
  /\ frames[c].labelName = frames[d].labelName
  /\ frames[c].gradientType = frames[d].gradientType
  /\ frames[c].options = frames[d].options

\* C1: two calls with identical label text, shape and options return the same
\* gradient, textColor, textShadow and colors, whatever other call was in
\* progress or finished before or between them.
Deterministic ==
  \A c, d \in Frames :
    (Done(c) /\ Done(d) /\ SameArguments(c, d)) => Result(c) = Result(d)

\* two finished calls for the same label text with a generated palette and an
\* automatically chosen shape
DeterministicWitness ==
  /\ Done(1) /\ Done(2) /\ SameArguments(1, 2)
  /\ frames[1].labelName = "Test"
  /\ frames[1].gradientType = "auto"
  /\ frames[1].options = NoOptions

\* C2: with options.seed supplied (0 included) the label text has no influence:
\* two calls with the same shape and options return the same configuration.
SeedOverridesText ==
  \A c, d \in Frames :
    ( /\ Done(c) /\ Done(d)
      /\ frames[c].gradientType = frames[d].gradientType
      /\ frames[c].options = frames[d].options
      /\ frames[c].options.hasSeed )
    => Result(c) = Result(d)

\* two finished calls with seed 0 and different label texts
SeedOverridesTextWitness ==
  /\ Done(1) /\ Done(2)
  /\ frames[1].labelName # frames[2].labelName
  /\ frames[1].gradientType = frames[2].gradientType
  /\ frames[1].options = frames[2].options
  /\ frames[1].options.hasSeed
  /\ frames[1].options.seed = <<0, 0>>
  /\ ~frames[1].options.hasColors

\* the strings of list from index k on occur in str from position i on, one
\* after the other
RECURSIVE ContainsInOrderFrom(_, _, _, _)
ContainsInOrderFrom(str, list, k, i) ==
  IF k > Len(list) THEN TRUE
  ELSE /\ IndexOfFrom(str, list[k], i) > 0
       /\ ContainsInOrderFrom(str, list, k + 1, IndexOfFrom(str, list[k], i) + Len(list[k]))

ContainsInOrder(str, list) == ContainsInOrderFrom(str, list, 1, 1)

SuppliedColors(c) == frames[c].options.hasColors /\ Len(frames[c].options.colors) > 0

\* C3: with a non-empty options.colors the returned colors are the supplied
\* list and the gradient contains every supplied colour in the supplied order.
SuppliedColorsUsed ==
  \A c \in Frames :
    (Done(c) /\ SuppliedColors(c))
    => /\ frames[c].colors = frames[c].options.colors
       /\ ContainsInOrder(frames[c].gradient, frames[c].options.colors)

\* a finished call with three supplied colours, a seed and a conic gradient
SuppliedColorsUsedWitness ==
  /\ Done(1)
  /\ Len(frames[1].options.colors) = 3
  /\ frames[1].options.hasSeed
  /\ frames[1].type = "conic"

\* /^linear-gradient\(\d+deg/
LinearForm(str) ==
  /\ StartsWith(str, "linear-gradient(")
  /\ DigitsEnd(str, 17) > 17
  /\ StartsWithAt(str, DigitsEnd(str, 17), "deg")

\* /^radial-gradient\(circle at/
RadialForm(str) == StartsWith(str, "radial-gradient(circle at")

\* /^conic-gradient\(from \d+deg/
ConicForm(str) ==
  /\ StartsWith(str, "conic-gradient(from ")
  /\ DigitsEnd(str, 21) > 21
  /\ StartsWithAt(str, DigitsEnd(str, 21), "deg")

FormsMatched(str) ==
  Cardinality({form \in {"linear", "radial", "conic"} :
                 \/ form = "linear" /\ LinearForm(str)
                 \/ form = "radial" /\ RadialForm(str)
                 \/ form = "conic" /\ ConicForm(str)})

ShapeSyntax(c) ==
  /\ (frames[c].gradientType = "linear" => LinearForm(frames[c].gradient))
  /\ (frames[c].gradientType = "radial" => RadialForm(frames[c].gradient))
  /\ (frames[c].gradientType = "conic" => ConicForm(frames[c].gradient))
  /\ (frames[c].gradientType = "auto" => FormsMatched(frames[c].gradient) = 1)

\* C4 as stated: for every options value the gradient has the form of the
\* requested shape, and for auto exactly one of the three forms.
ShapeSyntaxAlways == \A c \in Frames : Done(c) => ShapeSyntax(c)

\* C4, amended: the same when the colours in use are at least two and
\* options.angle, if supplied, is a non-negative integer.
ShapeSyntaxOfGradients ==
  \A c \in Frames :
    ( /\ Done(c)
      /\ Len(frames[c].colors) >= 2
      /\ (frames[c].options.hasAngle => frames[c].options.angle >= 0) )
    => ShapeSyntax(c)

\* a finished automatic call that drew the conic shape
ShapeSyntaxWitness ==
  /\ Done(1)
  /\ frames[1].gradientType = "auto"
  /\ frames[1].type = "conic"
  /\ ConicForm(frames[1].gradient)

\* C5: the returned textColor is exactly '#ffffff' or '#000000' for every
\* palette, generated or supplied, parseable or not.
TextColorIsBlackOrWhite ==
  \A c \in Frames : Done(c) => frames[c].textColor \in {"#ffffff", "#000000"}

\* a finished call with a supplied dark palette, which gets white text
TextColorWitness ==
  /\ Done(1)
  /\ SuppliedColors(1)
  /\ frames[1].textColor = "#ffffff"

EmptyColors(c) == frames[c].options.hasColors /\ frames[c].options.colors = <<>>

\* C10 as stated: options.colors = [] yields the fixed default gradient.
EmptyColorsGiveDefaultGradient ==
  \A c \in Frames :
    (Done(c) /\ EmptyColors(c)) => frames[c].gradient = DEFAULT_GRADIENT

\* C10, amended: options.colors = [] is ignored: the colours are the two or
\* three colours of the palette generated from the seed, and the gradient is
\* built from them and is never the fixed default gradient.
EmptyColorsGivePalette ==
  \A c \in Frames :
    (Done(c) /\ EmptyColors(c))
    => /\ Len(frames[c].colors) \in {2, 3}
       /\ \A k \in 1..Len(frames[c].colors) : HslMatch(frames[c].colors[k]) # <<>>
       /\ ContainsInOrder(frames[c].gradient, frames[c].colors)
       /\ frames[c].gradient # DEFAULT_GRADIENT

\* a finished call with options.colors = [] for the label "Test"
EmptyColorsWitness ==
  /\ Done(1)
  /\ EmptyColors(1)
  /\ frames[1].labelName = "Test"
  /\ ~frames[1].options.hasSeed
  /\ Len(frames[1].colors) = 3

----------------------------------------------------------------------------
(* Properties of the font scales                                           *)

NameScale == disk.fontScales[1]

InScaleRange(scale) ==
  /\ IsFinite(scale)
  /\ ~RatLess(scale, Rat(2, 5))
  /\ ~RatLess(Rat(3, 2), scale)

\* C6: for a measured text width > 0 and a container width > 0 the scale of
\* the name line is within [0.4, 1.5].
ScaleBounds ==
  (disk.mounted /\ disk.textWidth > 0 /\ disk.containerWidth > 0)
  => InScaleRange(NameScale)

\* a name of natural width 300 in a container of width 200: 0.5867
ScaleBoundsWitness ==
  /\ disk.mounted
  /\ disk.label.name = "Test"
  /\ disk.textWidth = 300
  /\ disk.containerWidth = 200
  /\ RatLess(Rat(2, 5), NameScale)
  /\ RatLess(NameScale, Rat(3, 2))

\* C7: with a measured text width of 0 or a container width of 0 the scale of
\* the name line is exactly 1.0.
ScaleZeroGuard ==
  (disk.mounted /\ (disk.textWidth = 0 \/ disk.containerWidth = 0))
  => RatEq(NameScale, Rat(1, 1))

\* C8: every stored line scale is a finite number within [0.4, 1.5]; NaN and
\* Infinity are never stored.
ScalesAlwaysFinite ==
  \A i \in 1..Len(disk.fontScales) : InScaleRange(disk.fontScales[i])

\* C9: for a non-empty name and positive widths the scale of the name line is
\* clamp(containerWidth * 0.88 / textWidth, 0.4, 1.5): 0.4 below, 1.5 above,
\* the ratio itself in between; 500 in 200 gives 0.4 and 100 in 200 gives 1.5.
ScaleIsClampedRatio ==
  (disk.mounted /\ disk.label.name # "" /\ disk.textWidth > 0 /\ disk.containerWidth > 0)
  => LET ratio == Rat(disk.containerWidth * 88, disk.textWidth * 100)
     IN  /\ RatLess(ratio, Rat(2, 5)) => RatEq(NameScale, Rat(2, 5))
         /\ RatLess(Rat(3, 2), ratio) => RatEq(NameScale, Rat(3, 2))
         /\ (~RatLess(ratio, Rat(2, 5)) /\ ~RatLess(Rat(3, 2), ratio))
              => RatEq(NameScale, ratio)
         /\ (disk.textWidth = 500 /\ disk.containerWidth = 200)
              => RatEq(NameScale, Rat(2, 5))
         /\ (disk.textWidth = 100 /\ disk.containerWidth = 200)
              => RatEq(NameScale, Rat(3, 2))

\* the example of the clamp from below: 200 * 0.88 / 500 = 0.352
ScaleIsClampedRatioWitness ==
  /\ disk.mounted
  /\ disk.label.name = "Test"
  /\ disk.textWidth = 500
  /\ disk.containerWidth = 200
  /\ RatEq(NameScale, Rat(2, 5))

----------------------------------------------------------------------------
(* Properties of generateGradientCSS                                       *)

CssCalled == probe.op = "generateGradientCSS"

\* C11: for a list of exactly one colour generateGradientCSS returns that
\* colour unchanged, without gradient syntax, for every shape, stream and
\* angle, and takes no value from the stream.
SingleColorReturned ==
  (CssCalled /\ Len(probe.colors) = 1)
  => /\ probe.text = probe.colors[1]
     /\ IndexOfFrom(probe.text, "-gradient(", 1) = 0
     /\ probe.after = probe.random

\* a radial gradient asked for the one colour "red", with an angle
SingleColorReturnedWitness ==
  /\ CssCalled
  /\ probe.colors = <<"red">>
  /\ probe.type = "radial"
  /\ probe.hasAngle
  /\ probe.text = "red"

----------------------------------------------------------------------------
(* Further properties of generateLabelGradient                             *)

\* C12: every call returns a configuration whose gradient, textColor and
\* textShadow are non-empty strings and whose colors list is non-empty.
ConfigurationNeverEmpty ==
  \A c \in Frames :
    Done(c) => /\ frames[c].gradient # ""
               /\ frames[c].textColor # ""
               /\ frames[c].textShadow # ""
               /\ Len(frames[c].colors) > 0

\* C13: textColor '#ffffff' always comes with the two-layer shadow built from
\* rgba(0, 0, 0, ...), and '#000000' with the two-layer shadow built from
\* rgba(255, 255, 255, ...).
ShadowOppositeToText ==
  \A c \in Frames :
    Done(c)
    => /\ frames[c].textColor = "#ffffff"
            => frames[c].textShadow
                 = "0 1px 3px rgba(0, 0, 0, 0.3), 0 1px 2px rgba(0, 0, 0, 0.2)"
       /\ frames[c].textColor = "#000000"
            => frames[c].textShadow
                 = "0 1px 2px rgba(255, 255, 255, 0.8), 0 0 1px rgba(255, 255, 255, 0.5)"

\* a finished call with white text on a dark shadow
ShadowOppositeToTextWitness ==
  /\ Done(1)
  /\ frames[1].textColor = "#ffffff"
  /\ StartsWith(frames[1].textShadow, "0 1px 3px rgba(0, 0, 0, 0.3)")

WithoutAngle(options) == [options EXCEPT !.hasAngle = FALSE, !.angle = 0]

\* C15: with options.angle supplied, a linear gradient (asked for, or chosen
\* for auto) of at least two colours has exactly that angle, 0 included, and
\* the result for a radial or conic gradient is the result of the same call
\* without options.angle.
AngleOnlyForLinear ==
  \A c \in Frames :
    (Done(c) /\ frames[c].options.hasAngle)
    => /\ (frames[c].type = "linear" /\ Len(frames[c].colors) >= 2)
            => StartsWith(frames[c].gradient,
                          "linear-gradient(" \o ToString(frames[c].options.angle)
                            \o "deg, ")
       /\ frames[c].type \in {"radial", "conic"}
            => Result(c) = generateLabelGradient(frames[c].labelName,
                                                 frames[c].gradientType,
                                                 WithoutAngle(frames[c].options))

\* a finished automatic call with angle 0 that chose the linear shape
AngleOnlyForLinearWitness ==
  /\ Done(1)
  /\ frames[1].gradientType = "auto"
  /\ frames[1].options.hasAngle
  /\ frames[1].options.angle = 0
  /\ frames[1].type = "linear"
  /\ StartsWith(frames[1].gradient, "linear-gradient(0deg, ")

----------------------------------------------------------------------------
(* Properties of generateColorPalette                                      *)

\* color is hsl(h, s%, l%) with integers h in [0, 360), s in [25, 50] and
\* l in [65, 85]
PaletteEntryInRange(color) ==
  /\ HslMatch(color) # <<>>
  /\ color = "hsl(" \o HslMatch(color)[1] \o ", " \o HslMatch(color)[2] \o "%, "
               \o HslMatch(color)[3] \o "%)"
  /\ ParseInt(HslMatch(color)[1]) \in 0..359
  /\ ParseInt(HslMatch(color)[2]) \in 25..50
  /\ ParseInt(HslMatch(color)[3]) \in 65..85

\* C14: generateColorPalette returns 2 or 3 entries hsl(h, s%, l%) with every
\* hue in [0, 360), every saturation in [25, 50] and every lightness in
\* [65, 85].
PaletteWithinRanges ==
  probe.op = "generateColorPalette"
  => /\ Len(probe.list) \in {2, 3}
     /\ \A k \in 1..Len(probe.list) : PaletteEntryInRange(probe.list[k])

----------------------------------------------------------------------------
(* Properties of getAdaptiveTextColor                                      *)

TextColorCalled == probe.op = "getAdaptiveTextColor"

Parseable(color) == HslMatch(color) # <<>>

\* colors with every entry that cannot be parsed replaced by substitute
Replaced(colors, substitute) ==
  [k \in 1..Len(colors) |-> IF Parseable(colors[k]) THEN colors[k] ELSE substitute]

\* C16 as stated: an entry that cannot be parsed counts as middle gray in the
\* average.
UnparseableCountsAsGray ==
  TextColorCalled
  => probe.text = getAdaptiveTextColor(Replaced(probe.colors, "hsl(0, 0%, 50%)"))

\* C16, amended: an entry that cannot be parsed counts as white (luminance 1)
\* in the average, and a palette of such entries only gets dark text.
UnparseableCountsAsWhite ==
  TextColorCalled
  => /\ probe.text = getAdaptiveTextColor(Replaced(probe.colors, "hsl(0, 0%, 100%)"))
     /\ (probe.colors # <<>> /\ \A k \in 1..Len(probe.colors) : ~Parseable(probe.colors[k]))
          => probe.text = "#000000"

\* a dark colour beside an entry that cannot be parsed: dark text
UnparseableCountsAsWhiteWitness ==
  /\ TextColorCalled
  /\ probe.colors = <<"hsl(0, 50%, 20%)", "not a color">>
  /\ probe.text = "#000000"

\* the sum of the luminances of the entries, in units of 1 / 10000
LuminanceSum == TotalLuminance(probe.colors, Len(probe.colors))

\* (L + 0.05)^2 < 1.05 * 0.05 for the mean L of the luminances: the contrast
\* 1.05 / (L + 0.05) against white is larger than (L + 0.05) / 0.05 against black
WhiteContrastLarger ==
  /\ Len(probe.colors) > 0
  /\ (LuminanceSum + (500 * Len(probe.colors))) * (LuminanceSum + (500 * Len(probe.colors)))
       < 5250000 * Len(probe.colors) * Len(probe.colors)

\* C18: getAdaptiveTextColor returns white exactly when the contrast of the
\* mean luminance against white is strictly larger than against black, and
\* black otherwise; a dark palette (lightness 20%) gets white and a light one
\* (lightness 85% and 90%) black.
TextColorByMeanContrast ==
  TextColorCalled
  => /\ probe.text = (IF WhiteContrastLarger THEN "#ffffff" ELSE "#000000")
     /\ probe.colors = <<"hsl(0, 50%, 20%)", "hsl(120, 50%, 20%)">> => probe.text = "#ffffff"
     /\ probe.colors = <<"hsl(60, 50%, 85%)", "hsl(70, 50%, 90%)">> => probe.text = "#000000"

\* two grays of mean luminance 0.1747, just below the change at 0.1791
TextColorByMeanContrastWitness ==
  /\ TextColorCalled
  /\ probe.colors = <<"hsl(0, 0%, 46%)", "hsl(0, 0%, 45%)">>
  /\ probe.text = "#ffffff"

\* C19: for a palette of parseable colours the contrast between the chosen
\* text colour and the mean luminance is at least 4.5.
ContrastAtLeastAA ==
  ( /\ TextColorCalled
    /\ Len(probe.colors) > 0
    /\ \A k \in 1..Len(probe.colors) : Parseable(probe.colors[k]) )
  => /\ probe.text = "#ffffff"
          => 2 * 10500 * Len(probe.colors)
               >= 9 * (LuminanceSum + (500 * Len(probe.colors)))
     /\ probe.text = "#000000"
          => 2 * (LuminanceSum + (500 * Len(probe.colors)))
               >= 9 * 500 * Len(probe.colors)

\* two grays of mean luminance 0.1829, just above the change: black text at a
\* contrast of 4.66
ContrastAtLeastAAWitness ==
  /\ TextColorCalled
  /\ probe.colors = <<"hsl(0, 0%, 46%)", "hsl(0, 0%, 47%)">>
  /\ probe.text = "#000000"

----------------------------------------------------------------------------
(* Properties of stringToSeed                                              *)

\* h * 31 + code modulo 2^32, for h given by its two halves
RollingStep(h, code) ==
  <<((h[1] * 31) + (((h[2] * 31) + code) \div 65536)) % 65536,
    ((h[2] * 31) + code) % 65536>>

RECURSIVE RollingHash(_, _)
RollingHash(str, i) ==
  IF i = 0 THEN <<0, 0>> ELSE RollingStep(RollingHash(str, i - 1), CharCodeAt(str, i))

\* |v| for the signed reading of the 32 bits <<hi, lo>>: 2^32 - v when the top
\* bit is set
Magnitude(h) ==
  IF h[1] < 32768 THEN h
  ELSE IF h[2] = 0 THEN <<(65536 - h[1]) % 65536, 0>>
  ELSE <<65535 - h[1], 65536 - h[2]>>

\* C20: for a non-empty string stringToSeed returns the absolute value of the
\* 32-bit wraparound of the rolling hash h := h * 31 + charCode, a number that
\* fits in 32 unsigned bits; the empty string gives 12345.
SeedIsAbsoluteHash ==
  probe.op = "stringToSeed"
  => /\ probe.word[1] \in 0..65535
     /\ probe.word[2] \in 0..65535
     /\ probe.str # "" => probe.word = Magnitude(RollingHash(probe.str, Len(probe.str)))
     /\ probe.str = "" => probe.word = <<0, 12345>>

\* the string whose hash is -2^31: the seed is 2^31
SeedIsAbsoluteHashWitness ==
  /\ probe.op = "stringToSeed"
  /\ probe.str = "Ltdmdta"
  /\ probe.word = <<32768, 0>>

----------------------------------------------------------------------------
(* Further properties of the font scales                                   *)

\* C17: after every layout pass the stored scale of the author line is
\* exactly 1, whatever its text and the measured widths, and the transform
\* of the author line has no scaleX.
OnlyNameLineScaled ==
  disk.mounted
  => /\ Len(disk.fontScales) = 2
     /\ disk.fontScales[AUTHOR_LINE_INDEX + 1] = [n |-> 1, d |-> 1]
     /\ LineTransform(disk.fontScales, AUTHOR_LINE_INDEX).scaleX = <<>>
     /\ LineTransform(disk.fontScales, NAME_LINE_INDEX).scaleX = <<disk.fontScales[1]>>

\* a label with name and author, the name squeezed to 0.4
OnlyNameLineScaledWitness ==
  /\ disk.mounted
  /\ disk.label.name = "Test"
  /\ disk.label.author = "Me"
  /\ disk.containerWidth = 200
  /\ disk.textWidth = 500
  /\ disk.fontScales[1] = [n |-> 2, d |-> 5]

\* C21: stringToSeed returns a strictly positive number, never 0, for every
\* string.
SeedNeverZero == probe.op = "stringToSeed" => probe.word # <<0, 0>>

----------------------------------------------------------------------------
(* Properties of the streams                                               *)

IsWord(v) == v[1] \in 0..65535 /\ v[2] \in 0..65535

\* C22: every value of a stream is >= 0 and < 1 (its numerator over 2^32 is a
\* 32-bit number), and the state is a 32-bit integer after every pull.
StreamValuesInUnitInterval ==
  probe.op = "createSeededRandom"
  => /\ IsWord(probe.after)
     /\ probe.pulls > 0
          => /\ IsWord(probe.word)
             /\ MathFloor(MulFraction(probe.word, 360)) \in 0..359
             /\ MathFloor(MulFraction(probe.word, 2)) \in {0, 1}

\* the stream of seed -1 after all its pulls
StreamValuesWitness ==
  /\ probe.op = "createSeededRandom"
  /\ probe.seed = <<65535, 65535>>
  /\ probe.pulls = MaxPulls
  /\ IsWord(probe.word)

\* C23: the state of the stream of a call depends only on the seed of the call
\* and the number of values drawn from it, whatever the other call does in
\* between; two streams of the same seed agree after the same number of draws.
StreamsShareNoState ==
  /\ \A c \in Frames :
       frames[c].pc # "idle"
       => frames[c].random = NthState(frames[c].seed, frames[c].drawn)
  /\ \A c, d \in Frames :
       ( /\ frames[c].pc # "idle" /\ frames[d].pc # "idle"
         /\ frames[c].seed = frames[d].seed
         /\ frames[c].drawn = frames[d].drawn )
       => frames[c].random = frames[d].random

\* two calls with the same seed at different steps, two values drawn from each
StreamsShareNoStateWitness ==
  /\ frames[1].pc = "text"
  /\ frames[2].pc = "done"
  /\ frames[1].seed = frames[2].seed
  /\ frames[1].drawn = 2
  /\ frames[2].drawn = 2

\* v < 0.5 and v < 0.8 for the value v = u / 2^32: 0.8 * 2^32 = 3435973836.8
BelowHalf(u) == u[1] < 32768

BelowFourFifths(u) == u[1] < 52428 \/ (u[1] = 52428 /\ u[2] <= 52428)

\* the first value of the stream of the call
FirstValue(c) == StreamOutput(NextState(frames[c].seed))

\* the shape when the gradient is about to be made: a requested shape unchanged
\* with nothing drawn, an automatic one from exactly one value
ShapeResolution ==
  \A c \in Frames :
    frames[c].pc = "css"
    => /\ frames[c].gradientType # "auto"
            => /\ frames[c].type = frames[c].gradientType
               /\ frames[c].drawn = 0
               /\ frames[c].random = frames[c].seed
       /\ frames[c].gradientType = "auto"
            => /\ frames[c].drawn = 1
               /\ frames[c].random = NextState(frames[c].seed)
               /\ BelowHalf(FirstValue(c)) => frames[c].type = "linear"
               /\ (~BelowHalf(FirstValue(c)) /\ BelowFourFifths(FirstValue(c)))
                    => frames[c].type = "radial"
               /\ ~BelowFourFifths(FirstValue(c)) => frames[c].type = "conic"

\* for a requested shape the first value of the stream of the
\* call goes to the gradient parameters (the angle of a linear gradient of two
\* or more colours without an angle override, the start angle of a conic one).
FirstValueToGradient ==
  \A c \in Frames :
    ( /\ frames[c].pc \in {"text", "done"}
      /\ Len(frames[c].colors) >= 2 )
    => /\ ( frames[c].gradientType = "linear" /\ ~frames[c].options.hasAngle )
            => /\ frames[c].drawn = 1
               /\ StartsWith(frames[c].gradient,
                             "linear-gradient("
                               \o ToString(MathRound(MulFraction(FirstValue(c), 360)))
                               \o "deg, ")
       /\ frames[c].gradientType = "conic"
            => /\ frames[c].drawn = 1
               /\ StartsWith(frames[c].gradient,
                             "conic-gradient(from "
                               \o ToString(MathRound(MulFraction(FirstValue(c), 360)))
                               \o "deg, ")

\* C24: a requested linear, radial or conic shape is used unchanged and no
\* value is drawn for it, so that the first value of the stream goes to the
\* gradient parameters; for auto exactly one value v is drawn before the
\* gradient is made, and the shape is linear for v < 0.5, radial for
\* 0.5 <= v < 0.8 and conic for v >= 0.8.
ShapeResolutionAndFirstValue == ShapeResolution /\ FirstValueToGradient

\* an automatic call for the empty label (seed 12345), which draws the conic
\* shape
ShapeResolutionWitness ==
  /\ frames[1].pc = "css"
  /\ frames[1].gradientType = "auto"
  /\ frames[1].labelName = ""
  /\ ~frames[1].options.hasSeed
  /\ frames[1].type = "conic"
  /\ frames[1].drawn = 1

----------------------------------------------------------------------------
(* The colour stops                                                        *)

\* position p is the integer nearest to c * i / m: halves upwards when exact,
\* otherwise either neighbour of a half
PositionOk(p, i, m, c, exact) ==
  IF exact THEN p = ((2 * c * i) + m) \div (2 * m)
  ELSE 2 * ((p * m) - (c * i)) <= m /\ 2 * ((c * i) - (p * m)) <= m

\* the stop of colour k read at position pos of the text,
\* "<colour> <position><unit>", the first at 0, the last percent stop at 100,
\* every degree stop below 360: the position after it, 0 when the text holds
\* no such stop there
StopAt(text, pos, colors, k, type, exact) ==
  LET n     == Len(colors)
      c     == IF type = "conic" THEN 360 ELSE 100
      m     == IF type = "conic" THEN n ELSE n - 1
      unit  == IF type = "conic" THEN "deg" ELSE "%"
      from  == pos + Len(colors[k]) + 1
      to    == DigitsEnd(text, from)
      p     == ParseInt(SubSeq(text, from, to - 1))
  IN  IF /\ StartsWithAt(text, pos, colors[k] \o " ")
         /\ to > from
         /\ StartsWithAt(text, to, unit)
         /\ PositionOk(p, k - 1, m, c, exact)
         /\ k = 1 => p = 0
         /\ (k = n /\ type # "conic") => p = 100
         /\ type = "conic" => p < 360
      THEN to + Len(unit)
      ELSE 0

\* the stops of the colours lo..hi read in order from position pos, joined by
\* ", ": the position after the last, 0 when the text does not hold them
RECURSIVE StopsBetween(_, _, _, _, _, _, _)
StopsBetween(text, pos, colors, lo, hi, type, exact) ==
  IF lo = hi THEN StopAt(text, pos, colors, lo, type, exact)
  ELSE LET mid  == (lo + hi) \div 2
           left == StopsBetween(text, pos, colors, lo, mid, type, exact)
       IN  IF left = 0 \/ ~StartsWithAt(text, left, ", ") THEN 0
           ELSE StopsBetween(text, left + 2, colors, mid + 1, hi, type, exact)

\* the returned gradient holds, after the first ", ", exactly the stops of all
\* colours and the closing ")"
StopsOfResult(exact) ==
  LET end == StopsBetween(probe.text, IndexOfFrom(probe.text, ", ", 1) + 2,
                          probe.colors, 1, Len(probe.colors), probe.type, exact)
  IN  end > 0 /\ SubSeq(probe.text, end, Len(probe.text)) = ")"

\* C25 as stated: for two or more colours generateGradientCSS emits one stop per
\* colour in palette order, for linear and radial at round(100 * i / (n - 1))
\* percent (first 0%, last 100%), for conic at round(360 * i / n) degrees (first
\* 0deg, all below 360deg, no closing stop).
StopsAtRoundedPositions ==
  (CssCalled /\ Len(probe.colors) >= 2) => StopsOfResult(TRUE)

\* C25 amended: one stop per colour in palette order, each at an integer nearest
\* to 100 * i / (n - 1) percent or 360 * i / n degrees, where a position
\* exactly halfway between two integers may be rounded to either of them; first
\* 0, last percent stop 100, every degree stop below 360, no closing stop.
StopsAtNearestPositions ==
  (CssCalled /\ Len(probe.colors) >= 2) => StopsOfResult(FALSE)

\* a conic gradient of four colours, and a radial one of 41
StopsWitness ==
  /\ CssCalled
  /\ probe.type = "conic"
  /\ Len(probe.colors) = 4
  /\ StopsOfResult(TRUE)

----------------------------------------------------------------------------
(* The palette stream and the stream of the call                           *)

\* the palette of the call was generated from its seed
GeneratedPalette(c) ==
  ~(frames[c].options.hasColors /\ Len(frames[c].options.colors) > 0)

\* the angle of the linear gradient, or the start angle of the conic one, is
\* the hue of the first colour of the palette
AngleIsFirstHue(c) ==
  LET hueText == HslMatch(frames[c].colors[1])[1]
  IN  \/ StartsWith(frames[c].gradient, "linear-gradient(" \o hueText \o "deg, ")
      \/ StartsWith(frames[c].gradient, "conic-gradient(from " \o hueText \o "deg, ")

\* C28 as stated: with a generated palette, for the shape linear without an
\* angle override and for the shape conic, the angle of the gradient equals the
\* hue of the first palette colour.
AngleIsFirstHueForShape ==
  \A c \in Frames :
    ( /\ frames[c].pc = "done"
      /\ GeneratedPalette(c)
      /\ \/ frames[c].type = "linear" /\ ~frames[c].options.hasAngle
         \/ frames[c].type = "conic" )
    => AngleIsFirstHue(c)

\* C28 amended: with a generated palette, when the shape linear is requested
\* without an angle override or the shape conic is requested, the angle of the
\* gradient equals the hue of the first palette colour; for auto the first
\* value of the stream chooses the shape and the angle is the second value.
AngleIsFirstHueForRequestedShape ==
  \A c \in Frames :
    ( /\ frames[c].pc = "done"
      /\ GeneratedPalette(c) )
    => /\ ( \/ frames[c].gradientType = "linear" /\ ~frames[c].options.hasAngle
            \/ frames[c].gradientType = "conic" )
          => AngleIsFirstHue(c)
       /\ ( /\ frames[c].gradientType = "auto"
            /\ \/ frames[c].type = "linear" /\ ~frames[c].options.hasAngle
               \/ frames[c].type = "conic" )
          => \/ StartsWith(frames[c].gradient,
                           "linear-gradient("
                             \o ToString(MathRound(MulFraction(Draw(frames[c].seed, 2), 360)))
                             \o "deg, ")
             \/ StartsWith(frames[c].gradient,
                           "conic-gradient(from "
                             \o ToString(MathRound(MulFraction(Draw(frames[c].seed, 2), 360)))
                             \o "deg, ")

\* a requested conic gradient for the label "Test" with a generated palette
AngleIsFirstHueWitness ==
  /\ frames[1].pc = "done"
  /\ frames[1].gradientType = "conic"
  /\ frames[1].labelName = "Test"
  /\ ~frames[1].options.hasSeed
  /\ ~frames[1].options.hasColors
  /\ AngleIsFirstHue(1)

----------------------------------------------------------------------------
(* Supplied colours that cannot be parsed                                  *)

\* every supplied colour is a string the expression of hslToRgb does not match
NoneParseable(c) ==
  /\ frames[c].options.hasColors
  /\ Len(frames[c].options.colors) > 0
  /\ \A k \in 1..Len(frames[c].options.colors) :
       HslMatch(frames[c].options.colors[k]) = <<>>

----------------------------------------------------------------------------
(* Properties of the events                                                *)

\* the event just dispatched is a click, an Enter keydown or a Space keyup
ActivatingEvent(event) ==
  \/ event.type = "click"
  \/ event.type = "keydown" /\ event.key = "Enter"
  \/ event.type = "keyup" /\ event.key = " "

\* one event: onClick is called once when the event activates and disabled is
\* false, and not at all otherwise
ActivationStep ==
  disk'.dispatched = disk.dispatched + 1
  => disk'.onClickCalls =
       disk.onClickCalls
         + (IF ~disk.disabled /\ ActivatingEvent(disk'.event) THEN 1 ELSE 0)

----------------------------------------------------------------------------
(* Properties of the stored scales                                         *)

----------------------------------------------------------------------------
(* Properties of the label paint                                           *)

\* the paint computed anew from the props of the last render, with no memory
FreshPaint ==
  IF disk.theme.enableGradient /\ disk.label.present /\ disk.label.name # ""
  THEN LET fresh == generateLabelGradient(disk.label.name,
                                          IF disk.theme.gradientType = "" THEN "auto"
                                          ELSE disk.theme.gradientType,
                                          disk.theme.gradientOptions)
       IN  [labelColor |-> fresh.gradient, labelTextColor |-> fresh.textColor,
            labelTextShadow |-> fresh.textShadow]
  ELSE [labelColor |-> disk.theme.labelColor,
        labelTextColor |-> disk.theme.labelTextColor,
        labelTextShadow |-> "none"]

====
